---------------------------- MODULE Spec2Model ----------------------------
(***************************************************************************)
(* A model of json-parser (src/src/main.rs): the Tokenizer, a cursor over  *)
(* the input text that hands out payload-free tokens, and the Parser, a    *)
(* recursive-descent recogniser that reads them through a Peekable.        *)
(*                                                                         *)
(* A text is a sequence of characters, each a one-character string; the    *)
(* two-byte character e-acute is written EAcute.  A token is the name of   *)
(* its enum variant; Option<Token> is a token or None.                     *)
(***************************************************************************)
EXTENDS Integers, Sequences, FiniteSets, TLC

(***************************************************************************)
(* Bounds of the model.                                                    *)
(***************************************************************************)
\* longest text enumerated over the whole alphabet
MaxLen == 3
\* longest token sequence an arbitrary token iterator hands to the Parser
MaxToks == 10
\* next_token calls the tokenizer driver still makes after end-of-stream
MaxEos == 2
\* passes of a next_token call that does not advance which are followed
\* beyond the length of its input (a call that never returns is cut here)
MaxSpin == 3
\* longest text enumerated over the structural characters, quotes and
\* whitespace
MaxPlainLen == 4
\* longest text enumerated over the characters of number lexemes
MaxNumLen == 4

(***************************************************************************)
(* Token (main.rs 27-39) and Option<Token>.                                *)
(***************************************************************************)
Token == {"Number", "Boolean", "Null", "Stringy", "BeginObject", "EndObject",
          "BeginArray", "EndArray", "ValueSeparator", "NameSeparator"}

None == "None"

OptToken == Token \cup {None}

(***************************************************************************)
(* Characters.                                                             *)
(***************************************************************************)
EAcute == "e_acute"

Quote == "\""

Digits == {"0", "1", "2", "3", "4", "5", "6", "7", "8", "9"}

\* char::is_digit(10)
IsDigit(c) == c \in Digits

\* the UTF-8 length of a character: String offsets count bytes
Utf8Len(c) == IF c = EAcute THEN 2 ELSE 1

\* s without its first n characters
Drop(s, n) == IF n >= Len(s) THEN << >> ELSE SubSeq(s, n + 1, Len(s))

\* input.chars().nth(p): the p-th character (from 0), or None
CharsNth(s, p) == IF p < Len(s) THEN s[p + 1] ELSE None

(***************************************************************************)
(* &input[b..]: the str slice from byte offset b.  It panics when b is     *)
(* past the end or inside a character.                                     *)
(***************************************************************************)
RECURSIVE SliceFrom(_, _)
SliceFrom(s, b) ==
    IF b = 0 THEN [ok |-> TRUE, str |-> s]
    ELSE IF s = << >> \/ Utf8Len(Head(s)) > b THEN [ok |-> FALSE, str |-> << >>]
    ELSE SliceFrom(Tail(s), b - Utf8Len(Head(s)))

(***************************************************************************)
(* consume_f64 (main.rs 9-25), the nom matcher.  Each parser returns       *)
(* [ok, rest]; opt(p) yields the input unchanged when p fails.             *)
(***************************************************************************)
RECURSIVE SkipDigits(_)
SkipDigits(s) == IF s # << >> /\ IsDigit(Head(s)) THEN SkipDigits(Tail(s)) ELSE s

\* digit1: one or more digits
Digit1(s) ==
    IF s # << >> /\ IsDigit(Head(s))
    THEN [ok |-> TRUE, rest |-> SkipDigits(s)]
    ELSE [ok |-> FALSE, rest |-> s]

\* opt(char(c)) and opt(one_of(cs))
OptOneOf(s, cs) == IF s # << >> /\ Head(s) \in cs THEN Tail(s) ELSE s

\* opt(tuple((char('.'), digit1)))
OptFraction(s) ==
    IF s # << >> /\ Head(s) = "." /\ Digit1(Tail(s)).ok
    THEN Digit1(Tail(s)).rest
    ELSE s

\* opt(tuple((one_of("eE"), opt(one_of("+-")), digit1)))
OptExponent(s) ==
    IF s # << >> /\ Head(s) \in {"e", "E"} /\ Digit1(OptOneOf(Tail(s), {"+", "-"})).ok
    THEN Digit1(OptOneOf(Tail(s), {"+", "-"})).rest
    ELSE s

consume_f64(s) ==
    LET int == Digit1(OptOneOf(s, {"-"}))
    IN  IF int.ok
        THEN [ok |-> TRUE, rest |-> OptExponent(OptFraction(int.rest))]
        ELSE [ok |-> FALSE, rest |-> s]


(***************************************************************************)
(* The grammar the Parser is to recognise, as the token sequences each     *)
(* production derives, by length:                                          *)
(*   Object = BeginObject Member (ValueSeparator Member)* EndObject        *)
(*   Member = Stringy NameSeparator Expr                                   *)
(*   Array  = BeginArray [Expr (ValueSeparator Expr)*] EndArray            *)
(*   Expr   = Array | Object | Number | Boolean | Null | Stringy           *)
(***************************************************************************)
ScalarTokens == {"Number", "Boolean", "Null", "Stringy"}

RECURSIVE ExprSeqs(_), ArraySeqs(_), ExprListSeqs(_), ObjectSeqs(_),
          MemberSeqs(_), MemberListSeqs(_)

ExprSeqs(n) ==
    IF n < 1 THEN {}
    ELSE IF n = 1 THEN {<<t>> : t \in ScalarTokens}
    ELSE ArraySeqs(n) \cup ObjectSeqs(n)

ArraySeqs(n) ==
    IF n < 2 THEN {}
    ELSE IF n = 2 THEN {<<"BeginArray", "EndArray">>}
    ELSE {<<"BeginArray">> \o l \o <<"EndArray">> : l \in ExprListSeqs(n - 2)}

ExprListSeqs(m) ==
    IF m < 1 THEN {}
    ELSE ExprSeqs(m) \cup
         UNION {{e \o <<"ValueSeparator">> \o l :
                    e \in ExprSeqs(k), l \in ExprListSeqs(m - k - 1)} :
                k \in 1..(m - 2)}

MemberSeqs(m) ==
    IF m < 3 THEN {}
    ELSE {<<"Stringy", "NameSeparator">> \o e : e \in ExprSeqs(m - 2)}

MemberListSeqs(m) ==
    IF m < 3 THEN {}
    ELSE MemberSeqs(m) \cup
         UNION {{x \o <<"ValueSeparator">> \o l :
                    x \in MemberSeqs(k), l \in MemberListSeqs(m - k - 1)} :
                k \in 3..(m - 4)}

ObjectSeqs(n) ==
    IF n < 5 THEN {}
    ELSE {<<"BeginObject">> \o l \o <<"EndObject">> : l \in MemberListSeqs(n - 2)}

\* the token sequences of at most MaxToks tokens derivable from Object
Objects == UNION {ObjectSeqs(n) : n \in 0..MaxToks}

Prefixes(s) == {SubSeq(s, 1, i) : i \in 0..Len(s)}

\* the sequences some derivable sequence begins with
ObjectPrefixes == UNION {Prefixes(w) : w \in Objects}

\* a sequence that can still become derivable, followed by any one token
OneTokenOff == {Append(p, t) : p \in {q \in ObjectPrefixes : Len(q) < MaxToks},
                               t \in Token}

(***************************************************************************)
(* JSON text for a token sequence.                                         *)
(***************************************************************************)
Lexemes(t) ==
    CASE t = "Number" -> {<<"1">>, <<"-", "1", ".", "1", "e", "+", "1">>}
      [] t = "Boolean" -> {<<"t", "r", "u", "e">>, <<"f", "a", "l", "s", "e">>}
      [] t = "Null" -> {<<"n", "u", "l", "l">>}
      [] t = "Stringy" -> {<<Quote, "k", Quote>>}
      [] t = "BeginObject" -> {<<"{">>}
      [] t = "EndObject" -> {<<"}">>}
      [] t = "BeginArray" -> {<<"[">>}
      [] t = "EndArray" -> {<<"]">>}
      [] t = "ValueSeparator" -> {<<",">>}
      [] t = "NameSeparator" -> {<<":">>}

Lexeme(t) ==
    CASE t = "Number" -> <<"1">>
      [] t = "Boolean" -> <<"t", "r", "u", "e">>
      [] OTHER -> CHOOSE l \in Lexemes(t) : TRUE

\* every way of writing the tokens ts
RECURSIVE Renderings(_)
Renderings(ts) ==
    IF ts = << >> THEN {<< >>}
    ELSE {l \o r : l \in Lexemes(Head(ts)), r \in Renderings(Tail(ts))}

\* one way of writing the tokens ts
RECURSIVE Rendering(_)
Rendering(ts) ==
    IF ts = << >> THEN << >> ELSE Lexeme(Head(ts)) \o Rendering(Tail(ts))

(***************************************************************************)
(* The input texts.  A run is one of three drivers: "lex" calls            *)
(* next_token again and again as tests::test_tokenizer does, "validate"    *)
(* is tests::test_parser's wiring (Tokenizer, iter::from_fn, peekable,     *)
(* parse_json), and "stream" is a Parser over an arbitrary token iterator. *)
(***************************************************************************)
Alphabet == {"{", "}", "[", "]", ":", ",", Quote, "n", "t", "f", "1", "-",
             ".", "e", "+", " ", "\n", "\t", "x", EAcute}

PlainAlphabet == {"{", "}", "[", "]", ":", ",", Quote, " ", "\n", "k"}

RECURSIVE SeqsUpTo(_, _)
SeqsUpTo(A, n) ==
    IF n = 0 THEN {<< >>}
    ELSE LET S == SeqsUpTo(A, n - 1)
         IN  S \cup {Append(s, c) : s \in {t \in S : Len(t) = n - 1}, c \in A}

ShortTexts == SeqsUpTo(Alphabet, MaxLen)

PlainTexts == SeqsUpTo(PlainAlphabet, MaxPlainLen)

\* the characters of number lexemes, a character that ends one, and a
\* two-byte character
NumberAlphabet == {"1", "-", ".", "e", "E", "+", "x", EAcute}

NumberTexts == SeqsUpTo(NumberAlphabet, MaxNumLen)

\* tests::test_tokenizer: {"key": "value"}
TestTokenizerInput ==
    <<"{", Quote, "k", "e", "y", Quote, ":", " ", Quote, "v", "a", "l", "u",
      "e", Quote, "}">>

\* tests::test_parser: {"key": [42,23, [112, true]], "lala": {"a": [-1e18]}}
TestParserInput ==
    <<"{", Quote, "k", "e", "y", Quote, ":", " ", "[", "4", "2", ",", "2",
      "3", ",", " ", "[", "1", "1", "2", ",", " ", "t", "r", "u", "e", "]",
      "]", ",", " ", Quote, "l", "a", "l", "a", Quote, ":", " ", "{", Quote,
      "a", Quote, ":", " ", "[", "-", "1", "e", "1", "8", "]", "}", "}">>

\* further texts: a trailing comma in an object and in an array, an empty
\* array and an empty object as a value, false, numbers after a two-byte
\* character, a string that is not closed after an object and inside one,
\* and a wrong token two arrays deep
NamedTexts ==
    { <<"{", Quote, "a", Quote, ":", " ", "1", ",", "}">>,
      <<"{", Quote, "a", Quote, ":", " ", "[", "]", "}">>,
      <<"{", Quote, "a", Quote, ":", "[", "1", ",", "]", "}">>,
      <<"{", Quote, "a", Quote, ":", "{", "}", "}">>,
      <<"{", Quote, "a", Quote, ":", "[", "{", "}", "]", "}">>,
      <<"{", Quote, "a", Quote, ":", "f", "a", "l", "s", "e", "}">>,
      <<Quote, EAcute, EAcute, "1", Quote, "-">>,
      <<"{", Quote, EAcute, Quote, ":", "1", "}">>,
      <<"{", Quote, "k", Quote, ":", Quote, "v", Quote, "}", Quote>>,
      <<"{", Quote, "k", Quote, ":", Quote, "v">>,
      <<"{", Quote, "a", Quote, ":", "[", "[", "1", "}">> }

\* the well-formed JSON objects among the texts: every way of writing a
\* derivable token sequence, and the two tests' documents
WellFormedTexts ==
    UNION {Renderings(w) : w \in Objects}
        \cup {TestTokenizerInput, TestParserInput}

\* texts one token away from a beginning of a well-formed object
OneTokenOffTexts == {Rendering(w) : w \in OneTokenOff}

LexTexts == ShortTexts \cup PlainTexts \cup NumberTexts \cup NamedTexts
                \cup {TestTokenizerInput, TestParserInput}

ValidateTexts == ShortTexts \cup NamedTexts \cup WellFormedTexts
                     \cup OneTokenOffTexts

(***************************************************************************)
(* The state.                                                              *)
(***************************************************************************)
VARIABLES
    mode,       \* the driver of this run
    text,       \* the text the Tokenizer was built over
    run,        \* 1, or 2 for the re-run over the same text
    prev,       \* what the first run ended with
    input,      \* Tokenizer.input
    position,   \* Tokenizer.position
    tk_pc,      \* where the next_token call stands
    tk_result,  \* what the call returned (or the panic it ended in)
    iters,      \* loop bodies the current call has run
    startRem,   \* characters left when the current call began
    pulled,     \* every result the token iterator has handed out
    peeked,     \* Peekable.peeked
    consumed,   \* every item Peekable::next has handed the Parser
    pc,         \* the Parser's program point
    stack,      \* return points of the enclosing productions
    outcome     \* the result of parse_json

vars == <<mode, text, run, prev, input, position, tk_pc, tk_result, iters,
          startRem, pulled, peeked, consumed, pc, stack, outcome>>

NoPeek == "NoPeek"

Running == "running"

\* mutant: the cursor of a Tokenizer built while an earlier one has handed
\* out tokens does not start at 0
TokenizerNew_StaleCursor(t) == [input |-> t, position |-> Len(pulled)]

\* Tokenizer::new
TokenizerNew(t) == [input |-> t, position |-> 0]

\* Parser { tokens: tokens.peekable() } with parse_json about to be called
ParserNew == [peeked |-> NoPeek, pc |-> "json_begin", stack |-> << >>]

\* the results of parse_json, and the failure texts the Parser builds
Outcome(st, f, a) == [status |-> st, fmt |-> f, args |-> a]

StillRunning == Outcome(Running, "", << >>)

\* the state of a run that is about to start over text t
Fresh(m, t) ==
    [input |-> TokenizerNew(t).input,
     position |-> TokenizerNew(t).position,
     peeked |-> ParserNew.peeked,
     pc |-> IF m = "lex" THEN "unused" ELSE ParserNew.pc,
     stack |-> ParserNew.stack,
     outcome |-> IF m = "lex" THEN Outcome("unused", "", << >>) ELSE StillRunning]

NoPrev == [outcome |-> Outcome("none", "", << >>), pulled |-> << >>]

Start(m, t) ==
    /\ mode = m
    /\ text = t
    /\ pulled = << >>
    /\ input = Fresh(m, t).input
    /\ position = Fresh(m, t).position
    /\ tk_pc = "idle"
    /\ tk_result = None
    /\ iters = 0
    /\ startRem = 0
    /\ peeked = Fresh(m, t).peeked
    /\ consumed = << >>
    /\ pc = Fresh(m, t).pc
    /\ stack = Fresh(m, t).stack
    /\ outcome = Fresh(m, t).outcome

Init ==
    /\ run = 1
    /\ prev = NoPrev
    /\ \/ \E t \in LexTexts : Start("lex", t)
       \/ \E t \in ValidateTexts : Start("validate", t)
       \/ Start("stream", << >>)

(***************************************************************************)
(* Tokenizer::next_token (main.rs 51-109), one action per pass of a loop.  *)
(***************************************************************************)
Whitespace == {" ", "\n", "\t"}

Structural(c) ==
    CASE c = "{" -> "BeginObject"
      [] c = "}" -> "EndObject"
      [] c = "[" -> "BeginArray"
      [] c = "]" -> "EndArray"
      [] c = ":" -> "NameSeparator"
      [] c = "," -> "ValueSeparator"
      [] OTHER -> None

\* the character the outer loop is looking at, None at the end
Cursor == CharsNth(input, position)

\* the characters left from the cursor on
Remaining == IF position >= Len(input) THEN 0 ELSE Len(input) - position

\* the call begins: the driver's call, or the from_fn closure's
Enter ==
    /\ tk_pc' = "outer"
    /\ iters' = 0
    /\ startRem' = Remaining
    /\ UNCHANGED <<input, position, tk_result, pulled>>

\* return Some(t) or None
Return(t) ==
    /\ tk_pc' = "returned"
    /\ tk_result' = t
    /\ pulled' = Append(pulled, t)

Outer == tk_pc = "outer" /\ Cursor # None

Untouched ==
    UNCHANGED <<mode, text, run, prev, peeked, consumed, pc, stack, outcome>>

\* ' ' | '\n' | '\t'
ScanWhitespace ==
    /\ Outer /\ Cursor \in Whitespace
    /\ position' = position + 1
    /\ iters' = iters + 1
    /\ UNCHANGED <<input, tk_pc, tk_result, startRem, pulled>>
    /\ Untouched

\* '{' '}' '[' ']' ':' ','
ScanStructural ==
    /\ Outer /\ Structural(Cursor) # None
    /\ position' = position + 1
    /\ iters' = iters + 1
    /\ Return(Structural(Cursor))
    /\ UNCHANGED <<input, startRem>>
    /\ Untouched

\* 'n'
ScanNull ==
    /\ Outer /\ Cursor = "n"
    /\ position' = position + 4
    /\ iters' = iters + 1
    /\ Return("Null")
    /\ UNCHANGED <<input, startRem>>
    /\ Untouched

\* mutant: 'f' advances over the five characters of false
ScanBoolean_WholeFalse ==
    /\ Outer /\ Cursor \in {"t", "f"}
    /\ position' = position + (IF Cursor = "f" THEN 5 ELSE 4)
    /\ iters' = iters + 1
    /\ Return("Boolean")
    /\ UNCHANGED <<input, startRem>>
    /\ Untouched

\* 't' | 'f'
ScanBoolean ==
    /\ Outer /\ Cursor \in {"t", "f"}
    /\ position' = position + 4
    /\ iters' = iters + 1
    /\ Return("Boolean")
    /\ UNCHANGED <<input, startRem>>
    /\ Untouched

\* '"': past the opening quote, into the inner loop
ScanQuote ==
    /\ Outer /\ Cursor = Quote
    /\ position' = position + 1
    /\ iters' = iters + 1
    /\ tk_pc' = "string"
    /\ UNCHANGED <<input, tk_result, startRem, pulled>>
    /\ Untouched

\* mutant: the closing quote is not stepped over
ScanString_KeepsClosingQuote ==
    /\ tk_pc = "string"
    /\ \/ /\ Cursor = Quote
          /\ iters' = iters + 1
          /\ Return("Stringy")
          /\ UNCHANGED position
       \/ /\ Cursor \notin {Quote, None}
          /\ position' = position + 1
          /\ iters' = iters + 1
          /\ UNCHANGED <<tk_pc, tk_result, pulled>>
       \/ /\ Cursor = None
          /\ tk_pc' = "outer"
          /\ UNCHANGED <<position, iters, tk_result, pulled>>
    /\ UNCHANGED <<input, startRem>>
    /\ Untouched

\* mutant: a string the input ends in is a Stringy all the same
ScanString_EndClosesString ==
    /\ tk_pc = "string"
    /\ \/ /\ Cursor = Quote
          /\ position' = position + 1
          /\ iters' = iters + 1
          /\ Return("Stringy")
       \/ /\ Cursor \notin {Quote, None}
          /\ position' = position + 1
          /\ iters' = iters + 1
          /\ UNCHANGED <<tk_pc, tk_result, pulled>>
       \/ /\ Cursor = None
          /\ Return("Stringy")
          /\ UNCHANGED <<position, iters>>
    /\ UNCHANGED <<input, startRem>>
    /\ Untouched

\* the inner loop: the closing quote returns Stringy, any other character
\* is stepped over, and at the end of the input the loop is left
ScanString ==
    /\ tk_pc = "string"
    /\ \/ /\ Cursor = Quote
          /\ position' = position + 1
          /\ iters' = iters + 1
          /\ Return("Stringy")
       \/ /\ Cursor \notin {Quote, None}
          /\ position' = position + 1
          /\ iters' = iters + 1
          /\ UNCHANGED <<tk_pc, tk_result, pulled>>
       \/ /\ Cursor = None
          /\ tk_pc' = "outer"
          /\ UNCHANGED <<position, iters, tk_result, pulled>>
    /\ UNCHANGED <<input, startRem>>
    /\ Untouched

\* the text handed to the matcher: &self.input[self.position..]
NumberSlice == SliceFrom(input, position)

\* c.is_digit(10) || c == '-'
ScanNumber ==
    /\ Outer /\ (IsDigit(Cursor) \/ Cursor = "-")
    /\ iters' = iters + 1
    /\ IF ~NumberSlice.ok
       THEN /\ tk_pc' = "panicked"
            /\ tk_result' = "byte index is not a char boundary"
            /\ UNCHANGED <<input, position, pulled>>
       ELSE IF ~consume_f64(NumberSlice.str).ok
       THEN /\ tk_pc' = "panicked"
            /\ tk_result' = "unwrap on an Err value"
            /\ UNCHANGED <<input, position, pulled>>
       ELSE /\ input' = consume_f64(NumberSlice.str).rest
            /\ position' = 0
            /\ Return("Number")
    /\ UNCHANGED startRem
    /\ Untouched

\* the characters no arm names
IsOther(c) ==
    /\ c # None
    /\ c \notin Whitespace \cup {"n", "t", "f", Quote, "-"}
    /\ Structural(c) = None
    /\ ~IsDigit(c)

\* _ => {}
ScanOther ==
    /\ Outer /\ IsOther(Cursor)
    /\ iters < startRem + MaxSpin
    /\ iters' = iters + 1
    /\ UNCHANGED <<input, position, tk_pc, tk_result, startRem, pulled>>
    /\ Untouched

\* mutant: at the end the cursor goes back to the start of input
ScanEnd_Rewinds ==
    /\ tk_pc = "outer" /\ Cursor = None
    /\ Return(None)
    /\ position' = 0
    /\ UNCHANGED <<input, iters, startRem>>
    /\ Untouched

\* the outer loop ends: None
ScanEnd ==
    /\ tk_pc = "outer" /\ Cursor = None
    /\ Return(None)
    /\ UNCHANGED <<input, position, iters, startRem>>
    /\ Untouched

(***************************************************************************)
(* tests::test_tokenizer: next_token called again and again.               *)
(***************************************************************************)
EosSeen == Cardinality({i \in DOMAIN pulled : pulled[i] = None})

TestTokenizer ==
    /\ mode = "lex"
    /\ tk_pc \in {"idle", "returned"}
    /\ EosSeen < MaxEos
    /\ Enter
    /\ Untouched

(***************************************************************************)
(* The token iterators the Parser reads: iter::from_fn over next_token     *)
(* (main.rs 132), or any Iterator<Item = Token> (main.rs 142).             *)
(***************************************************************************)
Wanted == outcome = StillRunning /\ peeked = NoPeek /\ tk_pc = "idle"

FromFn ==
    /\ mode = "validate"
    /\ Wanted
    /\ Enter
    /\ Untouched

AnyIterator ==
    /\ mode = "stream"
    /\ Wanted
    /\ Len(pulled) < MaxToks
    /\ \E t \in OptToken : Return(t)
    /\ UNCHANGED <<input, position, iters, startRem>>
    /\ Untouched

(***************************************************************************)
(* Peekable: next() takes the peeked item or asks the iterator; peek()     *)
(* fills peeked from the iterator when it is empty and leaves it there.    *)
(***************************************************************************)
HasItem == peeked # NoPeek \/ tk_pc = "returned"

Item == IF peeked # NoPeek THEN peeked ELSE tk_result

PeekableNext == [item |-> Item, peeked |-> NoPeek]

\* mutant: peek() hands the item out and does not keep it
PeekablePeek_TakesTheItem == [item |-> Item, peeked |-> NoPeek]

PeekablePeek == [item |-> Item, peeked |-> Item]

(***************************************************************************)
(* Where a step of the Parser goes next: a program point with the stack    *)
(* of return points, or a failure, which `?` hands up through every        *)
(* enclosing production.                                                   *)
(***************************************************************************)
NoErr == [fmt |-> "", args |-> << >>]

Goto(p) == [pc |-> p, stack |-> stack, err |-> NoErr]

Call(p, ret) == [pc |-> p, stack |-> <<ret>> \o stack, err |-> NoErr]

Ret ==
    IF stack = << >>
    THEN [pc |-> "done", stack |-> << >>, err |-> NoErr]
    ELSE [pc |-> Head(stack), stack |-> Tail(stack), err |-> NoErr]

\* mutant: a failure is handed to the calling production only, which goes on
Bail_ToTheCallerOnly(f, a) ==
    [pc |-> Ret.pc, stack |-> Ret.stack, err |-> [fmt |-> f, args |-> a]]

Bail(f, a) == [pc |-> "done", stack |-> << >>, err |-> [fmt |-> f, args |-> a]]

Proceed(k) ==
    /\ pc' = k.pc
    /\ stack' = k.stack
    /\ outcome' = IF k.err # NoErr THEN Outcome("err", k.err.fmt, k.err.args)
                  ELSE IF k.pc = "done" THEN Outcome("ok", "", << >>)
                  ELSE outcome
    /\ tk_pc' = "idle"
    /\ UNCHANGED <<mode, text, run, prev, input, position, tk_result, iters,
                   startRem, pulled>>

\* {:?} of an Option<Token>
DebugOpt(t) == IF t = None THEN <<"None">> ELSE <<"Some", t>>

\* mutant: the failure names the expected token as the one found
consume_token_ReportsExpected(token, k) ==
    /\ outcome = StillRunning
    /\ HasItem
    /\ peeked' = PeekableNext.peeked
    /\ consumed' = Append(consumed, PeekableNext.item)
    /\ IF PeekableNext.item = token
       THEN Proceed(k)
       ELSE Proceed(Bail("Expecting token {:?}. Got {:?}",
                         <<token>> \o DebugOpt(token)))

\* Parser::consume_token (main.rs 147-152)
consume_token(token, k) ==
    /\ outcome = StillRunning
    /\ HasItem
    /\ peeked' = PeekableNext.peeked
    /\ consumed' = Append(consumed, PeekableNext.item)
    /\ IF PeekableNext.item = token
       THEN Proceed(k)
       ELSE Proceed(Bail("Expecting token {:?}. Got {:?}",
                         <<token>> \o DebugOpt(PeekableNext.item)))

\* the token peek() hands its caller
Peeked == PeekablePeek.item

\* Parser::peek (main.rs 154-158); k is what the caller does with Peeked
peek(k) ==
    /\ outcome = StillRunning
    /\ HasItem
    /\ peeked' = PeekablePeek.peeked
    /\ UNCHANGED consumed
    /\ IF PeekablePeek.item = None
       THEN Proceed(Bail("Expecting to peek a token but there aren't any more.",
                         << >>))
       ELSE Proceed(k)

\* Parser::parse_json (main.rs 160-171)
JsonMore(t) == IF t = "ValueSeparator" THEN Goto("json_sep") ELSE Goto("json_end")

\* mutant: members are parsed only after a ValueSeparator
parse_json_NoFirstMember ==
    \/ pc = "json_begin" /\ consume_token("BeginObject", Goto("json_more"))
    \/ pc = "json_more" /\ peek(JsonMore(Peeked))
    \/ pc = "json_sep"
       /\ consume_token("ValueSeparator", Call("member_name", "json_more"))
    \/ pc = "json_end" /\ consume_token("EndObject", Ret)

parse_json ==
    \/ pc = "json_begin"
       /\ consume_token("BeginObject", Call("member_name", "json_more"))
    \/ pc = "json_more" /\ peek(JsonMore(Peeked))
    \/ pc = "json_sep"
       /\ consume_token("ValueSeparator", Call("member_name", "json_more"))
    \/ pc = "json_end" /\ consume_token("EndObject", Ret)

\* Parser::parse_member (main.rs 173-177)
parse_member ==
    \/ pc = "member_name" /\ consume_token("Stringy", Goto("member_colon"))
    \/ pc = "member_colon" /\ consume_token("NameSeparator", Goto("expr"))

\* mutant: no look for EndArray before the first element
ArrayFirst_NoEmptyArray(t) == Call("expr", "array_more")

\* Parser::parse_array (main.rs 179-194)
ArrayFirst(t) ==
    IF t = "EndArray" THEN Goto("array_empty") ELSE Call("expr", "array_more")

ArrayMore(t) == IF t = "ValueSeparator" THEN Goto("array_sep") ELSE Goto("array_end")

\* mutant: after a ValueSeparator the loop looks for EndArray again
parse_array_TrailingComma ==
    \/ pc = "array_begin" /\ consume_token("BeginArray", Goto("array_first"))
    \/ pc = "array_first" /\ peek(ArrayFirst(Peeked))
    \/ pc = "array_empty" /\ consume_token("EndArray", Ret)
    \/ pc = "array_more" /\ peek(ArrayMore(Peeked))
    \/ pc = "array_sep" /\ consume_token("ValueSeparator", Goto("array_first"))
    \/ pc = "array_end" /\ consume_token("EndArray", Ret)

parse_array ==
    \/ pc = "array_begin" /\ consume_token("BeginArray", Goto("array_first"))
    \/ pc = "array_first" /\ peek(ArrayFirst(Peeked))
    \/ pc = "array_empty" /\ consume_token("EndArray", Ret)
    \/ pc = "array_more" /\ peek(ArrayMore(Peeked))
    \/ pc = "array_sep"
       /\ consume_token("ValueSeparator", Call("expr", "array_more"))
    \/ pc = "array_end" /\ consume_token("EndArray", Ret)

\* Parser::parse_expr (main.rs 196-203)
Scalar == {"Number", "Boolean", "Null", "Stringy"}

\* mutant: the failure of parse_expr does not name the token found
ExprArm_NamesNoToken(t) ==
    IF t = "BeginArray" THEN Goto("array_begin")
    ELSE IF t = "BeginObject" THEN Goto("json_begin")
    ELSE IF t \in Scalar THEN Goto("expr_scalar")
    ELSE Bail("Expecting an expression.", << >>)

ExprArm(t) ==
    IF t = "BeginArray" THEN Goto("array_begin")
    ELSE IF t = "BeginObject" THEN Goto("json_begin")
    ELSE IF t \in Scalar THEN Goto("expr_scalar")
    ELSE Bail("Expecting an expression. Got {:?}.", <<t>>)

parse_expr ==
    \/ pc = "expr" /\ peek(ExprArm(Peeked))
    \/ pc = "expr_scalar" /\ consume_token(peeked, Ret)

\* a panic inside next_token unwinds through the Parser to its caller
Unwind ==
    /\ mode = "validate"
    /\ tk_pc = "panicked"
    /\ outcome = StillRunning
    /\ outcome' = Outcome("panic", tk_result, << >>)
    /\ pc' = "done"
    /\ stack' = << >>
    /\ UNCHANGED <<mode, text, run, prev, input, position, tk_pc, tk_result,
                   iters, startRem, pulled, peeked, consumed>>

(***************************************************************************)
(* Validation run again over the same text, with a new Tokenizer and a     *)
(* new Parser.                                                             *)
(***************************************************************************)
Rerun ==
    /\ mode = "validate"
    /\ run = 1
    /\ outcome # StillRunning
    /\ run' = 2
    /\ prev' = [outcome |-> outcome, pulled |-> pulled]
    /\ input' = Fresh(mode, text).input
    /\ position' = Fresh(mode, text).position
    /\ tk_pc' = "idle"
    /\ tk_result' = None
    /\ iters' = 0
    /\ startRem' = 0
    /\ pulled' = << >>
    /\ peeked' = Fresh(mode, text).peeked
    /\ consumed' = << >>
    /\ pc' = Fresh(mode, text).pc
    /\ stack' = Fresh(mode, text).stack
    /\ outcome' = Fresh(mode, text).outcome
    /\ UNCHANGED <<mode, text>>

next_token ==
    \/ ScanWhitespace
    \/ ScanStructural
    \/ ScanNull
    \/ ScanBoolean
    \/ ScanQuote
    \/ ScanString
    \/ ScanNumber
    \/ ScanOther
    \/ ScanEnd

Next ==
    \/ TestTokenizer
    \/ FromFn
    \/ AnyIterator
    \/ next_token
    \/ parse_json
    \/ parse_member
    \/ parse_array
    \/ parse_expr
    \/ Unwind
    \/ Rerun

Spec == Init /\ [][Next]_vars

(***************************************************************************)
(* Vocabulary of the properties.                                           *)
(***************************************************************************)
Validating == mode = "validate"

Finished == outcome.status \in {"ok", "err", "panic"}

Succeeded == outcome.status = "ok"

\* the failure consume_token(expected) raises on finding got
Mismatch(expected, got) ==
    Outcome("err", "Expecting token {:?}. Got {:?}", <<expected>> \o DebugOpt(got))

\* the failure parse_expr raises on finding got
NotAnExpression(got) == Outcome("err", "Expecting an expression. Got {:?}.", <<got>>)

\* the current next_token call has made more passes than it had characters
Spinning == iters > startRem

Front(s) == SubSeq(s, 1, Len(s) - 1)

Last(s) == s[Len(s)]

IsPrefix(p, s) == Len(p) <= Len(s) /\ p = SubSeq(s, 1, Len(p))

\* the index of the first double quote of s, 0 when it has none
FirstQuote(s) ==
    IF \E i \in 1..Len(s) : s[i] = Quote
    THEN CHOOSE i \in 1..Len(s) : s[i] = Quote /\ \A j \in 1..(i - 1) : s[j] # Quote
    ELSE 0

RECURSIVE SkipWhitespace(_)
SkipWhitespace(s) ==
    IF s # << >> /\ Head(s) \in Whitespace THEN SkipWhitespace(Tail(s)) ELSE s

(***************************************************************************)
(* C1: every well-formed JSON object validates: over such a text no        *)
(* next_token call panics or spins, and parse_json ends in success.        *)
(* (The code does not: after false the cursor rests on its final e.)       *)
(***************************************************************************)
C1_WellFormedObjectsValidate ==
    (Validating /\ text \in WellFormedTexts) =>
        /\ tk_pc # "panicked"
        /\ ~Spinning
        /\ outcome.status \in {Running, "ok"}

(***************************************************************************)
(* C2: every next_token call ends within as many loop passes as it had     *)
(* characters left, and the only failure is that of a malformed numeric    *)
(* start.  (The code spins on a character no arm names.)                   *)
(***************************************************************************)
C2_NextTokenTerminates ==
    /\ ~Spinning
    /\ tk_pc = "panicked" => ~consume_f64(Drop(input, position)).ok

(***************************************************************************)
(* C3: over any token sequence parse_json succeeds exactly when a prefix   *)
(* of the sequence is derivable from Object, and has then pulled and       *)
(* consumed that prefix and nothing after it.  Stated on the tokens        *)
(* pulled: on success they are a derivable sequence and none is left in    *)
(* the lookahead; on failure no prefix of them is derivable and no         *)
(* derivable sequence (of at most MaxToks tokens) begins with them.        *)
(***************************************************************************)
C3_RecognisesTheGrammar ==
    mode = "stream" =>
        /\ Succeeded => pulled \in Objects /\ peeked = NoPeek
        /\ outcome.status = "err" =>
              /\ \A p \in Prefixes(pulled) : p \notin Objects
              /\ pulled \notin ObjectPrefixes

\* a nested document has been accepted
C3_Witness ==
    /\ mode = "stream" /\ Succeeded
    /\ Len(pulled) >= 9
    /\ \E i \in DOMAIN pulled : i > 1 /\ pulled[i] = "BeginObject"

\* a sequence has been rejected at its seventh token
C3_WitnessRejected ==
    mode = "stream" /\ outcome.status = "err" /\ Len(pulled) >= 7

(***************************************************************************)
(* C4: on a character that no arm names, next_token steps over it: the     *)
(* cursor moves one character on, nothing is returned and the scan goes    *)
(* on.  (The code leaves the cursor where it is.)                          *)
(***************************************************************************)
C4_OtherCharacterIsSkipped ==
    [][(tk_pc = "outer" /\ IsOther(Cursor)) =>
          (position' = position + 1 /\ tk_pc' = "outer" /\ pulled' = pulled)]_vars

(***************************************************************************)
(* C5: on a digit or '-' at which no number starts, the next_token call    *)
(* comes back to its caller with a failure, not with a token.  (The code   *)
(* panics in unwrap: next_token returns Option<Token> and has no failure   *)
(* to hand back.)                                                          *)
(***************************************************************************)
MalformedNumericStart ==
    /\ tk_pc = "outer"
    /\ IsDigit(Cursor) \/ Cursor = "-"
    /\ ~consume_f64(Drop(input, position)).ok

C5_MalformedNumberIsAnError ==
    [][MalformedNumericStart => (tk_pc' = "returned" /\ tk_result' \notin Token)]_vars

(***************************************************************************)
(* C6: over a text of structural characters, closed strings and            *)
(* whitespace, the calls return one token per structural character and     *)
(* one Stringy per string, in the order of the text, and None after them.  *)
(***************************************************************************)
RECURSIVE IsPlain(_)
IsPlain(s) ==
    \/ s = << >>
    \/ /\ s # << >>
       /\ Head(s) \in Whitespace \/ Structural(Head(s)) # None
       /\ IsPlain(Tail(s))
    \/ /\ s # << >>
       /\ Head(s) = Quote
       /\ FirstQuote(Tail(s)) > 0
       /\ IsPlain(Drop(Tail(s), FirstQuote(Tail(s))))

RECURSIVE PlainTokens(_)
PlainTokens(s) ==
    IF s = << >> THEN << >>
    ELSE IF Head(s) \in Whitespace THEN PlainTokens(Tail(s))
    ELSE IF Head(s) = Quote
    THEN <<"Stringy">> \o PlainTokens(Drop(Tail(s), FirstQuote(Tail(s))))
    ELSE <<Structural(Head(s))>> \o PlainTokens(Tail(s))

C6_PlainTextTokens ==
    (mode = "lex" /\ IsPlain(text)) =>
        /\ tk_pc # "panicked"
        /\ ~Spinning
        /\ \A i \in DOMAIN pulled :
              pulled[i] = IF i <= Len(PlainTokens(text))
                          THEN PlainTokens(text)[i]
                          ELSE None

\* the test's document, read to its end
C6_Witness ==
    /\ mode = "lex"
    /\ text = TestTokenizerInput
    /\ pulled = <<"BeginObject", "Stringy", "NameSeparator", "Stringy",
                  "EndObject", None>>

(***************************************************************************)
(* C7: a text whose first value is an array, a string or a number fails    *)
(* in the first consume of parse_json: one token is pulled, and the        *)
(* failure says BeginObject was expected and names the token found.        *)
(***************************************************************************)
StartsArray(s) == s # << >> /\ Head(s) = "["

StartsString(s) == s # << >> /\ Head(s) = Quote /\ FirstQuote(Tail(s)) > 0

StartsNumber(s) ==
    /\ s # << >>
    /\ \/ IsDigit(Head(s))
       \/ Head(s) = "-" /\ Len(s) >= 2 /\ IsDigit(s[2])

TopLevelNotObject(s) ==
    \/ StartsArray(SkipWhitespace(s))
    \/ StartsString(SkipWhitespace(s))
    \/ StartsNumber(SkipWhitespace(s))

FirstTokenOf(s) ==
    IF StartsArray(SkipWhitespace(s)) THEN "BeginArray"
    ELSE IF StartsString(SkipWhitespace(s)) THEN "Stringy"
    ELSE "Number"

C7_TopLevelMustBeObject ==
    (Validating /\ TopLevelNotObject(text)) =>
        /\ tk_pc # "panicked"
        /\ ~Spinning
        /\ Len(pulled) <= 1
        /\ outcome.status # Running =>
              outcome = Mismatch("BeginObject", FirstTokenOf(text))

\* a bare number has been rejected
C7_Witness ==
    /\ Validating /\ StartsNumber(SkipWhitespace(text))
    /\ outcome = Mismatch("BeginObject", "Number")

(***************************************************************************)
(* C8: once BeginObject has been followed by EndObject, at any depth,      *)
(* validation does not succeed: it fails in parse_member's consume of      *)
(* Stringy.                                                                *)
(***************************************************************************)
EmptyObjectAt(i) ==
    /\ i + 1 <= Len(pulled)
    /\ pulled[i] = "BeginObject"
    /\ pulled[i + 1] = "EndObject"

C8_EmptyObjectRejected ==
    (mode \in {"validate", "stream"} /\ \E i \in DOMAIN pulled : EmptyObjectAt(i)) =>
        /\ outcome.status \in {Running, "err"}
        /\ Finished => outcome = Mismatch("Stringy", "EndObject")

\* an empty object as a member value or an array element has been rejected
C8_Witness ==
    /\ Validating
    /\ \E i \in DOMAIN pulled : i > 1 /\ EmptyObjectAt(i)
    /\ outcome = Mismatch("Stringy", "EndObject")

(***************************************************************************)
(* C9: once a ValueSeparator of an object has been followed by EndObject,  *)
(* or one of an array by EndArray, validation does not succeed, and the    *)
(* failure names that closing token as what was found.                     *)
(***************************************************************************)
\* the brackets of s that are still open, outermost first
RECURSIVE OpenBrackets(_)
OpenBrackets(s) ==
    IF s = << >> THEN << >>
    ELSE LET open == OpenBrackets(Front(s))
         IN  IF Last(s) \in {"BeginObject", "BeginArray"} THEN Append(open, Last(s))
             ELSE IF Last(s) \in {"EndObject", "EndArray"} /\ open # << >>
             THEN Front(open)
             ELSE open

\* the token at i is a ValueSeparator directly inside a bracket b, and the
\* token after it is c
TrailingComma(i, b, c) ==
    /\ i + 1 <= Len(pulled)
    /\ pulled[i] = "ValueSeparator"
    /\ pulled[i + 1] = c
    /\ OpenBrackets(SubSeq(pulled, 1, i)) # << >>
    /\ Last(OpenBrackets(SubSeq(pulled, 1, i))) = b

C9_TrailingCommaRejected ==
    mode \in {"validate", "stream"} =>
        /\ (\E i \in DOMAIN pulled : TrailingComma(i, "BeginObject", "EndObject")) =>
              /\ outcome.status \in {Running, "err"}
              /\ Finished => outcome = Mismatch("Stringy", "EndObject")
        /\ (\E i \in DOMAIN pulled : TrailingComma(i, "BeginArray", "EndArray")) =>
              /\ outcome.status \in {Running, "err"}
              /\ Finished => outcome = NotAnExpression("EndArray")

\* a trailing comma in an array read from a text has been rejected
C9_Witness ==
    /\ Validating
    /\ \E i \in DOMAIN pulled : TrailingComma(i, "BeginArray", "EndArray")
    /\ outcome = NotAnExpression("EndArray")

\* a trailing comma in an object has been rejected
C9_WitnessObject ==
    /\ \E i \in DOMAIN pulled : TrailingComma(i, "BeginObject", "EndObject")
    /\ outcome = Mismatch("Stringy", "EndObject")

C10_WitnessFailure ==
    Validating /\ run = 2 /\ outcome.status = "err" /\ Len(pulled) >= 3

(***************************************************************************)
(* C11: an empty array is accepted where a value is expected: when the     *)
(* token after a BeginArray is EndArray, parse_array takes it and returns  *)
(* to the enclosing production without parsing an element, and so          *)
(* {"a": []} validates.                                                    *)
(***************************************************************************)
EmptyArrayDocument == <<"{", Quote, "a", Quote, ":", " ", "[", "]", "}">>

\* the last two tokens pulled are a BeginArray and an EndArray
EmptyArrayPulled ==
    /\ Len(pulled) >= 2
    /\ pulled[Len(pulled) - 1] = "BeginArray"
    /\ Last(pulled) = "EndArray"

C11_EmptyArrayAccepted ==
    mode \in {"validate", "stream"} =>
        /\ EmptyArrayPulled =>
              /\ outcome = StillRunning
              /\ pc \in {"array_first", "array_empty", "array_more", "json_more"}
              /\ consumed = pulled => pc \in {"array_more", "json_more"}
        /\ (text = EmptyArrayDocument /\ Finished) => Succeeded

\* {"a": []} has been validated
C11_Witness ==
    /\ Validating
    /\ text = EmptyArrayDocument
    /\ Succeeded
    /\ \E i \in DOMAIN consumed :
          i > 1 /\ consumed[i - 1] = "BeginArray" /\ consumed[i] = "EndArray"

(***************************************************************************)
(* C12: across next_token calls the cursor only moves forward over the     *)
(* original text: the number of its characters consumed never decreases,   *)
(* so no character is looked at again once passed, the Number step that    *)
(* replaces input and resets position included.                            *)
(* (The code does not: C19; after a two-byte character the Number step     *)
(* cuts input at an earlier character than the cursor's.)                  *)
(***************************************************************************)
\* the characters of the original text before the cursor: those cut off
\* input, and position
OriginalConsumed == Len(text) - Len(input) + position

C12_CursorOnlyMovesForward ==
    [][(mode \in {"lex", "validate"} /\ run' = run) =>
           OriginalConsumed' >= OriginalConsumed]_vars

(***************************************************************************)
(* C13: once a consume_token or a peek fails, parse_json returns that      *)
(* failure at once: the failing step leaves no enclosing production to     *)
(* continue and pulls no token, and after it no token is pulled or         *)
(* consumed and the failure stays the one of the first mismatch.           *)
(***************************************************************************)
\* what a step of the Parser must leave alone after a failure
FailureReturnsAtOnce ==
    mode \in {"validate", "stream"} =>
        /\ (outcome = StillRunning /\ outcome'.status = "err") =>
               /\ pc' = "done"
               /\ stack' = << >>
               /\ pulled' = pulled
        /\ (outcome.status = "err" /\ run' = run) =>
               /\ outcome' = outcome
               /\ pulled' = pulled
               /\ consumed' = consumed
               /\ pc' = pc
               /\ stack' = stack

C13_FailureReturnsAtOnce == [][FailureReturnsAtOnce]_vars

\* a validation has failed on a wrong token inside an array inside an
\* array inside the object, and no production is left to go on
C13_Witness ==
    /\ Validating
    /\ outcome.status = "err"
    /\ pc = "done"
    /\ stack = << >>
    /\ Len(OpenBrackets(Front(pulled))) >= 3
    /\ Last(pulled) # None

(***************************************************************************)
(* C14: the Parser looks one token ahead at most: it has pulled at most    *)
(* one token more than it has consumed.  A peek leaves the stream as it    *)
(* was: the tokens consumed are the tokens pulled, in their order, and a   *)
(* token peeked is the next one consume_token is handed.                   *)
(***************************************************************************)
C14_OneTokenOfLookahead ==
    mode \in {"validate", "stream"} =>
        /\ IsPrefix(consumed, pulled)
        /\ Len(pulled) <= Len(consumed) + 1
        /\ peeked # NoPeek =>
              /\ Len(pulled) = Len(consumed) + 1
              /\ peeked = Last(pulled)

\* parse_expr has peeked a BeginArray and parse_array has consumed it
C14_Witness ==
    /\ Validating
    /\ pc = "array_first"
    /\ peeked = NoPeek
    /\ consumed = pulled
    /\ Len(consumed) >= 4
    /\ Last(consumed) = "BeginArray"

(***************************************************************************)
(* C15: every failure of the Parser says what was expected and what was    *)
(* found.  A failure of consume_token names the token kind expected and    *)
(* the item consumed in its place, a token or None; a failure of           *)
(* parse_expr says an expression was expected and names the token peeked,  *)
(* which starts none; a failure of peek says a token was expected and      *)
(* there are none, and it is raised when the item pulled is None.  (The    *)
(* failure of peek names no token kind and not the tokens an expression    *)
(* may start with.)                                                        *)
(***************************************************************************)
\* the failure peek raises on an exhausted stream
NoMoreTokens ==
    Outcome("err", "Expecting to peek a token but there aren't any more.", << >>)

StartsExpr == Scalar \cup {"BeginArray", "BeginObject"}

\* the failure says which token kind was expected, or that an expression
\* was, and what was found
NamesExpectedKind ==
    \/ /\ consumed # << >>
       /\ \E e \in Token \ {Last(consumed)} : outcome = Mismatch(e, Last(consumed))
    \/ /\ pulled # << >>
       /\ Last(pulled) \in Token \ StartsExpr
       /\ outcome = NotAnExpression(Last(pulled))

C15_DiagnosticNamesBoth ==
    (mode \in {"validate", "stream"} /\ outcome.status = "err") =>
        \/ NamesExpectedKind
        \/ /\ pulled # << >>
           /\ Last(pulled) = None
           /\ outcome = NoMoreTokens

\* the statement as given: every failure names the token kind expected, or
\* the expression
C15_EveryFailureNamesAKind ==
    (mode \in {"validate", "stream"} /\ outcome.status = "err") => NamesExpectedKind

\* a validation has ended in the failure of peek
C15_Witness == Validating /\ Len(pulled) >= 4 /\ outcome = NoMoreTokens

\* a validation has ended in the failure of parse_expr
C15_WitnessExpr ==
    Validating /\ Len(pulled) >= 4 /\ outcome = NotAnExpression("NameSeparator")

\* a validation has ended in the failure of consume_token, on a closing
\* bracket of the wrong kind and on the end of the tokens
C15_WitnessConsume ==
    /\ Validating
    /\ Len(pulled) >= 4
    /\ outcome \in {Mismatch("EndArray", "EndObject"), Mismatch("NameSeparator", None)}

(***************************************************************************)
(* C16: when the cursor is on a digit or '-' that starts a number,         *)
(* next_token consumes the longest prefix from that character on that      *)
(* matches -?digits(.digits)?([eE][+-]?digits)?, emits Number, and leaves  *)
(* as input the text after that prefix, with position 0.                   *)
(* (The code does not: C19; after a two-byte character the text matched    *)
(* does not start at the cursor.)                                          *)
(***************************************************************************)
AllDigits(w) == w # << >> /\ \A i \in DOMAIN w : IsDigit(w[i])

\* w is "." digits, or nothing
FractionOrNone(w) ==
    w = << >> \/ (Len(w) >= 2 /\ w[1] = "." /\ AllDigits(Tail(w)))

\* w is [eE][+-]?digits, or nothing
ExponentOrNone(w) ==
    \/ w = << >>
    \/ /\ Len(w) >= 2
       /\ w[1] \in {"e", "E"}
       /\ \/ AllDigits(Tail(w))
          \/ Len(w) >= 3 /\ w[2] \in {"+", "-"} /\ AllDigits(Tail(Tail(w)))

\* w matches -?digits(.digits)?([eE][+-]?digits)?
NumberLexeme(w) ==
    \E s \in 0..1 : \E i \in 1..Len(w) : \E j \in i..Len(w) :
        /\ s = 1 => w[1] = "-"
        /\ AllDigits(SubSeq(w, s + 1, i))
        /\ FractionOrNone(SubSeq(w, i + 1, j))
        /\ ExponentOrNone(SubSeq(w, j + 1, Len(w)))

NumberPrefixes(s) == {n \in 1..Len(s) : NumberLexeme(SubSeq(s, 1, n))}

\* the length of the longest prefix of s that is a number, 0 when none is
LongestNumber(s) ==
    IF NumberPrefixes(s) = {} THEN 0
    ELSE CHOOSE n \in NumberPrefixes(s) : \A m \in NumberPrefixes(s) : m <= n

\* the cursor is on a digit or '-' and a number starts there
OnNumber ==
    /\ mode \in {"lex", "validate"}
    /\ tk_pc = "outer"
    /\ Cursor \in Digits \cup {"-"}
    /\ LongestNumber(Drop(input, position)) > 0

LongestNumberConsumed ==
    OnNumber =>
        /\ tk_pc' = "returned"
        /\ tk_result' = "Number"
        /\ pulled' = Append(pulled, "Number")
        /\ input' = Drop(Drop(input, position), LongestNumber(Drop(input, position)))
        /\ position' = 0

C16_LongestNumberConsumed == [][LongestNumberConsumed]_vars

(***************************************************************************)
(* C17: on 'n' next_token emits Null and on 't' or 'f' Boolean, and the    *)
(* cursor advances four positions, whatever follows and however few        *)
(* characters are left; after false the cursor is on its final 'e'.        *)
(***************************************************************************)
FalseLiteral == <<"f", "a", "l", "s", "e">>

KeywordAdvancesFour ==
    (mode \in {"lex", "validate"} /\ tk_pc = "outer" /\ Cursor \in {"n", "t", "f"}) =>
        /\ tk_pc' = "returned"
        /\ tk_result' = (IF Cursor = "n" THEN "Null" ELSE "Boolean")
        /\ pulled' = Append(pulled, tk_result')
        /\ position' = position + 4
        /\ input' = input
        /\ IsPrefix(FalseLiteral, Drop(input, position)) => Cursor' = "e"

C17_KeywordAdvancesFour == [][KeywordAdvancesFour]_vars

\* Boolean has been emitted for false and the cursor is on its 'e'
C17_Witness ==
    /\ tk_pc = "returned"
    /\ tk_result = "Boolean"
    /\ position >= 4
    /\ IsPrefix(FalseLiteral, Drop(input, position - 4))
    /\ Cursor = "e"

\* Null has been emitted for an n that ends the text, and the cursor is
\* three positions past the end
C17_WitnessShort ==
    /\ tk_pc = "returned"
    /\ tk_result = "Null"
    /\ Len(input) >= 1
    /\ input[Len(input)] = "n"
    /\ position = Len(input) + 3

(***************************************************************************)
(* C18: when an opening double quote has no closing double quote before    *)
(* the end of the input, next_token emits no Stringy and no error for it   *)
(* and returns None.  A validation that pulls that None ends in a failure  *)
(* that reports an absent token; one that succeeds has ended before the    *)
(* quote was reached.  (The statement that validation over such a text     *)
(* never succeeds does not hold: a text may go on after its object.)       *)
(***************************************************************************)
\* where the text has an opening double quote that is never closed: the
\* text before it has its strings closed, and no double quote follows
Unclosed(t) ==
    {i \in DOMAIN t : /\ t[i] = Quote
                      /\ IsPlain(SubSeq(t, 1, i - 1))
                      /\ \A j \in (i + 1)..Len(t) : t[j] # Quote}

\* the tokens before the unclosed string
TokensBeforeUnclosed(t) ==
    PlainTokens(SubSeq(t, 1, (CHOOSE i \in Unclosed(t) : TRUE) - 1))

\* a failure that reports an absent token
ReportsAbsentToken ==
    \/ outcome = NoMoreTokens
    \/ \E e \in Token : outcome = Mismatch(e, None)

UnclosedStringIsTheEnd ==
    (mode \in {"lex", "validate"} /\ Unclosed(text) # {}) =>
        /\ tk_pc # "panicked"
        /\ ~Spinning
        /\ \A i \in DOMAIN pulled :
              pulled[i] = IF i <= Len(TokensBeforeUnclosed(text))
                          THEN TokensBeforeUnclosed(text)[i]
                          ELSE None
        /\ (Validating /\ Finished) =>
              IF Len(pulled) > Len(TokensBeforeUnclosed(text))
              THEN ReportsAbsentToken
              ELSE outcome.status \in {"ok", "err"}

\* the inner loop of a string with no closing quote ahead emits nothing and
\* leaves the cursor at the end, where the outer loop returns None
InUnclosedString == tk_pc = "string" /\ FirstQuote(Drop(input, position)) = 0

UnclosedStringStep ==
    /\ InUnclosedString =>
          /\ pulled' = pulled
          /\ input' = input
          /\ \/ InUnclosedString'
             \/ tk_pc' = "outer" /\ Cursor' = None
    /\ (tk_pc = "outer" /\ Cursor = None) =>
          /\ tk_pc' = "returned"
          /\ tk_result' = None
          /\ pulled' = Append(pulled, None)

C18_UnclosedStringIsTheEnd ==
    []UnclosedStringIsTheEnd /\ [][UnclosedStringStep]_vars

\* the statement as given, in its last part: no validation over such a text
\* ends in success
C18_UnclosedStringNeverValidates ==
    (Validating /\ Unclosed(text) # {} /\ Finished) => ~Succeeded

\* a validation has pulled the None of an unclosed string after other
\* tokens and has failed
C18_Witness ==
    /\ Validating
    /\ Unclosed(text) # {}
    /\ Len(pulled) >= 4
    /\ Last(pulled) = None
    /\ ReportsAbsentToken

\* next_token has returned None for an unclosed string after other tokens
C18_WitnessLex ==
    /\ mode = "lex"
    /\ Unclosed(text) # {}
    /\ Len(text) > (CHOOSE i \in Unclosed(text) : TRUE)
    /\ Len(pulled) >= 3
    /\ Last(pulled) = None

(***************************************************************************)
(* C19: the text handed to the numeric matcher starts at the character the *)
(* cursor is on: the character index in position and the offset input is   *)
(* sliced at denote the same character, two-byte characters before the     *)
(* number or not.                                                          *)
(* (The code does not: position counts characters and the slice counts     *)
(* bytes.)                                                                 *)
(***************************************************************************)
C19_SliceStartsAtTheCursor ==
    (mode \in {"lex", "validate"} /\ tk_pc = "outer" /\ Cursor \in Digits \cup {"-"}) =>
        /\ NumberSlice.ok
        /\ NumberSlice.str = Drop(input, position)

(***************************************************************************)
(* C20: end-of-stream is absorbing: once next_token has returned None,     *)
(* every later call on the same Tokenizer returns None and leaves input    *)
(* and position as they were.                                              *)
(***************************************************************************)
EndOfStreamAbsorbing ==
    (mode \in {"lex", "validate"} /\ EosSeen >= 1 /\ run' = run) =>
        /\ input' = input
        /\ position' = position
        /\ tk_pc' # "panicked"
        /\ pulled' # pulled => pulled' = Append(pulled, None)

C20_EndOfStreamAbsorbing == [][EndOfStreamAbsorbing]_vars

\* next_token has been called again after it returned None for a text with
\* tokens, and has returned None again
C20_Witness ==
    /\ mode = "lex"
    /\ tk_pc = "returned"
    /\ Len(pulled) >= 4
    /\ pulled[Len(pulled) - 1] = None
    /\ Last(pulled) = None
    /\ pulled[1] # None

=============================================================================
